---- MODULE Spec2Model ----
(***************************************************************************)
(* Admin credential verification state machine of server/routes/          *)
(* authRoutes.js: seeding, signup, login with an emailed one-time code,    *)
(* password reset, and admin deletion, over the Admin collection.          *)
(*                                                                         *)
(* Strings are sequences of one-character strings, so that trim(),         *)
(* toLowerCase(), length and String(number) are computed, not assumed.     *)
(* Dates are integers in milliseconds; null is Null.                       *)
(***************************************************************************)
EXTENDS Integers, Sequences, FiniteSets, TLC

VARIABLES
    admins,     \* the Admin collection: _id -> document
    nextId,     \* number of documents ever created (ObjectIds are never reused)
    now,        \* Date.now()
    env,        \* process.env, fixed for the life of the process
    tokens,     \* the claims {id, email} of every session token issued so far
    inflight,   \* the requests being handled (used by the interleaved specification)
    resp,       \* the response of the request that completed last
    consumed    \* history: the {account, code} pairs a verify-login accepted, until a
                \* new login code is stored for the account

vars == <<admins, nextId, now, env, tokens, inflight, resp, consumed>>

(***************************************************************************)
(* Bounds of the model.                                                    *)
(***************************************************************************)
MaxIds == 3
MaxTicks == 3
MaxInFlight == 2

(***************************************************************************)
(* Program constants.                                                      *)
(***************************************************************************)
LOGIN_CODE_TTL_MS == 10 * 60 * 1000
RESET_CODE_TTL_MS == 15 * 60 * 1000
MIN_PASSWORD_LENGTH == 6
CODE_BASE == 100000
CODE_SPAN == 900000
\* the clock advances in steps of half a login-code lifetime
TickMs == 5 * 60 * 1000
Null == -1

(***************************************************************************)
(* Strings.                                                                *)
(***************************************************************************)
Lower(ch) ==
    CASE ch = "A" -> "a"
      [] ch = "B" -> "b"
      [] OTHER -> ch

toLowerCase(s) == [i \in 1..Len(s) |-> Lower(s[i])]

RECURSIVE trimStart(_)
trimStart(s) == IF s # <<>> /\ Head(s) = " " THEN trimStart(Tail(s)) ELSE s

RECURSIVE trimEnd(_)
trimEnd(s) ==
    IF s # <<>> /\ s[Len(s)] = " " THEN trimEnd(SubSeq(s, 1, Len(s) - 1)) ELSE s

trim(s) == trimEnd(trimStart(s))

normalizeEmail(raw) == toLowerCase(trim(raw))

DigitChars == <<"0", "1", "2", "3", "4", "5", "6", "7", "8", "9">>

\* String(n) for a non-negative integer
RECURSIVE String(_)
String(n) ==
    IF n < 10 THEN <<DigitChars[n + 1]>>
    ELSE String(n \div 10) \o <<DigitChars[(n % 10) + 1]>>

(***************************************************************************)
(* Hashing primitives. Both are modelled as injective tagged values: a     *)
(* collision of SHA-256, or of bcrypt, is outside the model.               *)
(***************************************************************************)
sha256(s) == <<"sha256:">> \o s
bcryptHash(pw) == <<"bcrypt:">> \o pw
bcryptCompare(pw, hash) == hash = bcryptHash(pw)

\* mutant: the code is not lifted into the 6-digit range
generateVerificationCode_NoBase(k) == String(k)

\* Math.random() returned k / CODE_SPAN, 0 <= k < CODE_SPAN, so that
\* Math.floor(100000 + Math.random() * 900000) is CODE_BASE + k
generateVerificationCode(k) == String(CODE_BASE + k)

(***************************************************************************)
(* Input domains.                                                          *)
(***************************************************************************)
EmailA == <<"a">>
EmailB == <<"b">>

PwA == <<"s", "e", "c", "r", "e", "t">>
PwB == <<"h", "u", "n", "t", "e", "r">>
PwShort == <<"s", "h", "o", "r", "t">>

NameN == <<"N">>
NameM == <<"M">>

RandomDraws == {0, CODE_SPAN - 1}
GeneratedCodes == {generateVerificationCode(k) : k \in RandomDraws}
RawCodes == {<<>>, <<"1", "2", "3">>} \cup GeneratedCodes
                \cup {<<" ">> \o c \o <<" ">> : c \in {generateVerificationCode(0)}}

\* what the two mail paths do for one message: <<the Resend API call, nodemailer>>
MailBehaviours ==
    { <<"ok", "unconfigured">>, <<"unconfigured", "unconfigured">>,
      <<"rejected", "throws">>, <<"rejected", "ok">> }

Ids == 1..MaxIds

(***************************************************************************)
(* process.env. ADMIN_ACCOUNTS is the list parseAdminAccounts returns, or   *)
(* <<>> when the variable is unset, unparsable, not an array or empty.     *)
(* ADMIN_EMAIL, ADMIN_PASSWORD and ADMIN_NAME are left unset, so the       *)
(* single seed is built from the DEFAULT_PRIMARY_ADMIN_* constants.        *)
(***************************************************************************)
DEFAULT_PRIMARY_ADMIN_EMAIL == EmailA
DEFAULT_PRIMARY_ADMIN_PASSWORD == PwA
DEFAULT_PRIMARY_ADMIN_NAME == NameN

Seed(email, password, name, forceSync) ==
    [email |-> email, password |-> password, name |-> name, forceSync |-> forceSync]

SeedLists ==
    { <<>>,
      << Seed(<<" ", "A">>, PwB, NameM, FALSE) >>,
      << Seed(EmailA, <<>>, NameN, TRUE), Seed(EmailB, PwA, NameM, TRUE) >>,
      << Seed(EmailA, PwA, NameN, TRUE), Seed(<<" ", "A">>, PwB, NameN, TRUE) >> }

seedsOf(e) ==
    LET fromList == e.ADMIN_ACCOUNTS
        singleSeed == << Seed(DEFAULT_PRIMARY_ADMIN_EMAIL, DEFAULT_PRIMARY_ADMIN_PASSWORD,
                              DEFAULT_PRIMARY_ADMIN_NAME, TRUE) >>
    IN  IF Len(fromList) > 0 THEN fromList ELSE singleSeed

(***************************************************************************)
(* The Admin collection.                                                   *)
(***************************************************************************)
NoDoc ==
    [ _id |-> 0, name |-> <<>>, email |-> <<>>, passwordHash |-> <<>>,
      isVerified |-> FALSE,
      loginVerificationCodeHash |-> <<>>, loginVerificationExpiresAt |-> Null,
      resetPasswordTokenHash |-> <<>>, resetPasswordExpiresAt |-> Null ]

newAdmin(name, email, passwordHash, isVerified) ==
    [ NoDoc EXCEPT !.name = name, !.email = email, !.passwordHash = passwordHash,
                   !.isVerified = isVerified ]

\* Model.findOne(filter), given the _ids of the documents the filter matches:
\* the first of them in _id order, or NoDoc
findOne(db, matching) ==
    IF matching = {} THEN NoDoc
    ELSE db[CHOOSE id \in matching : \A other \in matching : id <= other]

\* the filter {email}
byEmail(db, email) == {id \in DOMAIN db : db[id].email = email}

findById(db, id) == IF id \in DOMAIN db THEN db[id] ELSE NoDoc

countDocuments(db) == Cardinality(DOMAIN db)

\* the paths a document's setters marked modified since it was loaded or last saved
modifiedPaths(loaded, doc) == {f \in DOMAIN doc : doc[f] # loaded[f]}

\* mutant: save() throws when the stored document is no longer the loaded one
save_IfUnchanged(db, loaded, doc) ==
    LET paths == modifiedPaths(loaded, doc)
    IN  IF paths = {} THEN [ok |-> TRUE, wrote |-> FALSE, db |-> db]
        ELSE IF doc._id \notin DOMAIN db \/ db[doc._id] # loaded
        THEN [ok |-> FALSE, wrote |-> FALSE, db |-> db]
        ELSE [ ok |-> TRUE, wrote |-> TRUE,
               db |-> [db EXCEPT ![doc._id] =
                          [f \in DOMAIN doc |-> IF f \in paths THEN doc[f] ELSE @[f]]] ]

\* doc.save(): $set of the modified paths on the stored document with doc._id;
\* nothing is sent when no path is modified, and it throws when the stored
\* document is gone
save(db, loaded, doc) ==
    LET paths == modifiedPaths(loaded, doc)
    IN  IF paths = {} THEN [ok |-> TRUE, wrote |-> FALSE, db |-> db]
        ELSE IF doc._id \notin DOMAIN db THEN [ok |-> FALSE, wrote |-> FALSE, db |-> db]
        ELSE [ ok |-> TRUE, wrote |-> TRUE,
               db |-> [db EXCEPT ![doc._id] =
                          [f \in DOMAIN doc |-> IF f \in paths THEN doc[f] ELSE @[f]]] ]

\* Model.create(fields): inserts under a fresh _id; the schema's unique index on
\* email makes the insert throw when a document with that email is stored
\* mutant: no unique index on email
create_NoIndex(db, n, fields) ==
    LET doc == [fields EXCEPT !._id = n + 1]
    IN  [ok |-> TRUE, db |-> (n + 1 :> doc) @@ db, doc |-> doc]

create(db, n, fields) ==
    IF \E id \in DOMAIN db : db[id].email = fields.email
    THEN [ok |-> FALSE, db |-> db, doc |-> NoDoc]
    ELSE LET doc == [fields EXCEPT !._id = n + 1]
         IN  [ok |-> TRUE, db |-> (n + 1 :> doc) @@ db, doc |-> doc]

deleteOne(db, id) == [i \in DOMAIN db \ {id} |-> db[i]]

(***************************************************************************)
(* A request being handled. pc is the store operation it performs next;    *)
(* doc is the handler's copy of the document it loaded, as of its last     *)
(* load or save. The rest are the request's inputs: body fields, the       *)
(* decoded session token (requester), and what the outside world does      *)
(* during the request (rand: Math.random(); resend, smtp: the mail paths). *)
(* replay is history: the request is a verify-login that presents, for the *)
(* same account, a code an earlier verify-login accepted.                  *)
(***************************************************************************)
NoToken == [id |-> 0, email |-> <<>>]

Idle ==
    [ op |-> "idle", pc |-> "done",
      email |-> <<>>, password |-> <<>>, name |-> <<>>, code |-> <<>>, token |-> <<>>,
      targetId |-> 0, requester |-> NoToken,
      rand |-> 0, resend |-> "unconfigured", smtp |-> "unconfigured",
      i |-> 1, doc |-> NoDoc, mail |-> "none", writes |-> 0,
      replay |-> FALSE ]

NoResp ==
    [ op |-> "none", status |-> 0, message |-> "", token |-> NoToken,
      code |-> <<>>, account |-> 0, mail |-> "none", writes |-> 0,
      replay |-> FALSE ]

\* res.status(status).json({message, token, verificationCode | resetCode})
Reply(c, status, message, token, code) ==
    [ c EXCEPT !.r.pc = "done",
               !.tokens = IF token # NoToken THEN @ \cup {token} ELSE @,
               !.resp = [ op |-> c.r.op, status |-> status, message |-> message,
                          token |-> token, code |-> code, account |-> c.r.doc._id,
                          mail |-> c.r.mail, writes |-> c.r.writes,
                          replay |-> c.r.replay ] ]

Goto(c, pc) == [c EXCEPT !.r.pc = pc]

\* the message of each handler's catch block
FailMessage(op) ==
    CASE op = "list" -> "Failed to fetch admins"
      [] op = "delete" -> "Failed to delete admin"
      [] op = "signup" -> "Failed to create admin account"
      [] op = "create" -> "Failed to create admin account"
      [] op = "resend" -> "Failed to resend verification code"
      [] op = "login" -> "Failed to login"
      [] op = "verify" -> "Failed to verify code"
      [] op = "forgot" -> "Failed to process forgot password request"
      [] OTHER -> "Failed to reset password"

Fail(c) == Reply(c, 500, FailMessage(c.r.op), NoToken, <<>>)

\* await doc.save() in a handler; pc "threw" when it rejects
Saved(c, doc) ==
    LET res == save(c.db, c.r.doc, doc)
    IN  IF ~res.ok THEN [c EXCEPT !.r.doc = doc, !.r.pc = "threw"]
        ELSE [c EXCEPT !.db = res.db, !.r.doc = doc,
                       !.r.writes = @ + (IF res.wrote THEN 1 ELSE 0)]

\* await Admin.create(...) in a handler; pc "threw" when it rejects
Created(c, fields) ==
    LET res == create(c.db, c.nextId, fields)
    IN  IF ~res.ok THEN [c EXCEPT !.r.pc = "threw"]
        ELSE [c EXCEPT !.db = res.db, !.nextId = @ + 1, !.r.doc = res.doc,
                       !.r.writes = @ + 1]

\* the rest of the try block after an await, or the catch block
Try(c, continued) == IF c.r.pc = "threw" THEN Fail(c) ELSE continued

jwtSign(admin) == [id |-> admin._id, email |-> admin.email]

(***************************************************************************)
(* ensureSeedAdmins                                                        *)
(***************************************************************************)
\* the document after the forceSync block of one seed (lines 49-65)
seedSynced(existing, seed) ==
    LET d1 == IF ~bcryptCompare(seed.password, existing.passwordHash)
              THEN [existing EXCEPT !.passwordHash = bcryptHash(seed.password)]
              ELSE existing
        d2 == IF d1.name # seed.name THEN [d1 EXCEPT !.name = seed.name] ELSE d1
        d3 == IF d2.isVerified # TRUE THEN [d2 EXCEPT !.isVerified = TRUE] ELSE d2
        shouldSave == d3 # existing
    IN  IF shouldSave
        THEN [d3 EXCEPT !.loginVerificationCodeHash = <<>>,
                        !.loginVerificationExpiresAt = Null]
        ELSE existing

seedShouldSave(existing, seed) ==
    \/ ~bcryptCompare(seed.password, existing.passwordHash)
    \/ existing.name # seed.name
    \/ existing.isVerified # TRUE

\* where a handler continues after await ensureSeedAdmins()
AfterSeed(op) ==
    CASE op = "list" -> "list_find"
      [] op = "signup" -> "signup_find"
      [] op = "create" -> "create_find"
      [] op = "login" -> "login_find"
      [] OTHER -> "forgot_find"

NextSeed(c) == [c EXCEPT !.r.i = @ + 1, !.r.pc = "seed_find", !.r.doc = NoDoc]

ensureSeedAdmins(c) ==
    LET r == c.r
        seeds == seedsOf(env)
        seed == seeds[r.i]
        normalizedEmail == normalizeEmail(seed.email)
        saved == Saved(c, seedSynced(r.doc, seed))
        created == Created(c, newAdmin(seed.name, normalizedEmail,
                                       bcryptHash(seed.password), TRUE))
    IN  CASE r.pc = "seed_find" ->
               IF r.i > Len(seeds) THEN Goto(c, AfterSeed(r.op))
               ELSE IF seed.email = <<>> \/ seed.password = <<>> THEN NextSeed(c)
               ELSE LET existing == findOne(c.db, byEmail(c.db, normalizedEmail))
                    IN  IF existing # NoDoc
                        THEN IF seed.forceSync /\ seedShouldSave(existing, seed)
                             THEN [c EXCEPT !.r.doc = existing, !.r.pc = "seed_save"]
                             ELSE NextSeed(c)
                        ELSE Goto(c, "seed_create")
          [] r.pc = "seed_save" -> Try(saved, NextSeed(saved))
          [] OTHER -> Try(created, NextSeed(created))  \* seed_create

(***************************************************************************)
(* Verification codes and their delivery                                   *)
(***************************************************************************)
\* mutant: a stored code is kept, only its window is renewed
saveVerificationCode_KeepsHash(admin, code) ==
    [ admin EXCEPT !.loginVerificationCodeHash =
                       IF @ = <<>> THEN sha256(code) ELSE @,
                   !.loginVerificationExpiresAt = now + LOGIN_CODE_TTL_MS ]

\* mutant: the expiry is the time of issue
saveVerificationCode_NoTtl(admin, code) ==
    [ admin EXCEPT !.loginVerificationCodeHash = sha256(code),
                   !.loginVerificationExpiresAt = now ]

saveVerificationCode(admin, code) ==
    [ admin EXCEPT !.loginVerificationCodeHash = sha256(code),
                   !.loginVerificationExpiresAt = now + LOGIN_CODE_TTL_MS ]

\* sendVerificationCode, and the same two paths inlined in forgot-password:
\* "sent" (true), "unsent" (false: Resend did not send and there is no
\* transporter) or "threw" (transporter.sendMail rejected)
sendVerificationCode(r) ==
    IF r.resend = "ok" THEN "sent"
    ELSE IF r.smtp = "unconfigured" THEN "unsent"
    ELSE IF r.smtp = "throws" THEN "threw"
    ELSE "sent"

handleMissingSmtpVerification(admin) ==
    [ admin EXCEPT !.isVerified = TRUE,
                   !.loginVerificationCodeHash = <<>>,
                   !.loginVerificationExpiresAt = Null ]

\* mutant: the code is echoed whenever it was not sent, in any mode
formatVerificationResponse_AnyMode(baseMessage, codeSent, code) ==
    IF codeSent THEN [message |-> baseMessage, verificationCode |-> <<>>]
    ELSE [ message |-> "SMTP is not configured. Use this verification code locally.",
           verificationCode |-> code ]

formatVerificationResponse(baseMessage, codeSent, code) ==
    IF codeSent THEN [message |-> baseMessage, verificationCode |-> <<>>]
    ELSE IF ~env.production
    THEN [ message |-> "SMTP is not configured. Use this verification code locally.",
           verificationCode |-> code ]
    ELSE [ message |-> "Email is not configured. Set SMTP credentials in server .env.",
           verificationCode |-> <<>> ]

\* the response of signup, resend-verification and login once the code is stored
\* and the account was not auto-verified
VerificationReply(c, sent) ==
    LET code == generateVerificationCode(c.r.rand)
        base == IF c.r.op = "login"
                THEN "Verification required. Code sent to your email."
                ELSE "Verification code sent to your email."
        payload == formatVerificationResponse(base, sent, code)
        status == CASE c.r.op = "login" -> 403
                    [] c.r.op = "signup" -> IF sent THEN 201 ELSE 200
                    [] OTHER -> 200
    IN  Reply(c, status, payload.message, NoToken, payload.verificationCode)

\* mutant: the bypass does not consult the policy
AfterSaveCode_IgnoresPolicy(c) ==
    LET out == sendVerificationCode(c.r)
        c1 == [c EXCEPT !.r.mail = out]
    IN  IF out = "threw" THEN Fail(c1)
        ELSE IF out = "sent" THEN VerificationReply(c1, TRUE)
        ELSE Goto(c1, "bypass")

\* after await saveVerificationCode(admin, code): send, then reply or auto-verify
AfterSaveCode(c) ==
    LET out == sendVerificationCode(c.r)
        c1 == [c EXCEPT !.r.mail = out]
    IN  IF out = "threw" THEN Fail(c1)
        ELSE IF out = "sent" THEN VerificationReply(c1, TRUE)
        ELSE IF env.REQUIRE_ADMIN_EMAIL_VERIFICATION THEN VerificationReply(c1, FALSE)
        ELSE Goto(c1, "bypass")

\* the response after handleMissingSmtpVerification returned true
BypassReply(c) ==
    CASE c.r.op = "login" ->
           Reply(c, 200, "Logged in (SMTP not configured).", jwtSign(c.r.doc), <<>>)
      [] c.r.op = "signup" ->
           Reply(c, 201, "Admin created and verified (SMTP not configured).", NoToken, <<>>)
      [] OTHER ->
           Reply(c, 200, "Admin verified (SMTP not configured).", NoToken, <<>>)

\* the two store operations shared by signup, resend-verification and login
issueCode(c) ==
    LET stored == Saved(c, saveVerificationCode(c.r.doc,
                                                generateVerificationCode(c.r.rand)))
        bypassed == Saved(c, handleMissingSmtpVerification(c.r.doc))
    IN  IF c.r.pc = "save_code" THEN Try(stored, AfterSaveCode(stored))
        ELSE Try(bypassed, BypassReply(bypassed))  \* bypass

(***************************************************************************)
(* GET /admins and DELETE /admins/:id                                      *)
(***************************************************************************)
listAdmins(c) == Reply(c, 200, "", NoToken, <<>>)

\* mutant: only an empty collection counts as the last admin
lastAdmin_Empty(adminsCount) == adminsCount < 1

\* adminsCount <= 1
lastAdmin(adminsCount) == adminsCount <= 1

\* mutant: the requester is recognised by id only
isSelf_IdOnly(requester, targetAdmin) ==
    requester.id # 0 /\ requester.id = targetAdmin._id

isSelf(requester, targetAdmin) ==
    LET requesterId == requester.id
        requesterEmail == toLowerCase(trim(requester.email))
    IN  \/ requesterId # 0 /\ requesterId = targetAdmin._id
        \/ requesterEmail # <<>> /\ requesterEmail = toLowerCase(targetAdmin.email)

deleteAdmin(c) ==
    LET r == c.r
        targetAdmin == findById(c.db, r.targetId)
    IN  CASE r.pc = "delete_count" ->
               IF lastAdmin(countDocuments(c.db))
               THEN Reply(c, 400, "Cannot delete the last admin account", NoToken, <<>>)
               ELSE Goto(c, "delete_find")
          [] r.pc = "delete_find" ->
               IF targetAdmin = NoDoc
               THEN Reply(c, 404, "Admin not found", NoToken, <<>>)
               ELSE IF isSelf(r.requester, targetAdmin)
               THEN Reply([c EXCEPT !.r.doc = targetAdmin], 400,
                          "You cannot delete your own admin account", NoToken, <<>>)
               ELSE [c EXCEPT !.r.doc = targetAdmin, !.r.pc = "delete_one"]
          [] OTHER ->  \* delete_one
               Reply([c EXCEPT !.db = deleteOne(@, r.doc._id),
                               !.r.writes = @ + (IF r.doc._id \in DOMAIN c.db THEN 1 ELSE 0)],
                     200, "Admin removed successfully", NoToken, <<>>)

(***************************************************************************)
(* POST /admin/signup and POST /admins                                     *)
(***************************************************************************)
\* the body validation and existence check shared by both handlers
createChecks(c, next) ==
    LET email == normalizeEmail(c.r.email)
        password == c.r.password
        existing == findOne(c.db, byEmail(c.db, email))
    IN  IF email = <<>> \/ password = <<>>
        THEN Reply(c, 400, "Email and password are required", NoToken, <<>>)
        ELSE IF Len(password) < MIN_PASSWORD_LENGTH
        THEN Reply(c, 400, "Password must be at least 6 characters", NoToken, <<>>)
        ELSE IF existing # NoDoc
        THEN Reply([c EXCEPT !.r.doc = existing], 409,
                   "Admin account already exists for this email", NoToken, <<>>)
        ELSE Goto(c, next)

signup(c) ==
    LET r == c.r
        created == Created(c, newAdmin(trim(r.name), normalizeEmail(r.email),
                                       bcryptHash(r.password), FALSE))
    IN  CASE r.pc = "signup_gate" ->
               IF env.DISABLE_PUBLIC_ADMIN_SIGNUP
               THEN Reply(c, 403, "Admin signup is disabled.", NoToken, <<>>)
               ELSE Goto(c, "seed_find")
          [] r.pc = "signup_find" -> createChecks(c, "signup_create")
          [] OTHER -> Try(created, Goto(created, "save_code"))  \* signup_create

createAdmin(c) ==
    LET r == c.r
        created == Created(c, newAdmin(trim(r.name), normalizeEmail(r.email),
                                       bcryptHash(r.password), TRUE))
    IN  IF r.pc = "create_find" THEN createChecks(c, "create_create")
        ELSE Try(created, Reply(created, 201, "Admin created", NoToken, <<>>))

(***************************************************************************)
(* POST /admin/resend-verification, /admin/login, /admin/verify-login      *)
(***************************************************************************)
resendVerification(c) ==
    LET email == normalizeEmail(c.r.email)
        admin == findOne(c.db, byEmail(c.db, email))
    IN  IF email = <<>> THEN Reply(c, 400, "Email is required", NoToken, <<>>)
        ELSE IF admin = NoDoc THEN Reply(c, 404, "Admin account not found", NoToken, <<>>)
        ELSE IF admin.isVerified = TRUE
        THEN Reply([c EXCEPT !.r.doc = admin], 400, "Admin is already verified",
                   NoToken, <<>>)
        ELSE [c EXCEPT !.r.doc = admin, !.r.pc = "save_code"]

login(c) ==
    LET email == c.r.email
        password == c.r.password
        admin == findOne(c.db, byEmail(c.db, normalizeEmail(email)))
        c1 == [c EXCEPT !.r.doc = admin]
    IN  IF email = <<>> \/ password = <<>>
        THEN Reply(c, 400, "Email and password are required", NoToken, <<>>)
        ELSE IF admin = NoDoc THEN Reply(c, 401, "Invalid credentials", NoToken, <<>>)
        ELSE IF ~bcryptCompare(password, admin.passwordHash)
        THEN Reply(c1, 401, "Invalid credentials", NoToken, <<>>)
        ELSE IF admin.isVerified = FALSE THEN Goto(c1, "save_code")
        ELSE Reply(c1, 200, "", jwtSign(admin), <<>>)

\* mutant: the expiry instant itself still counts as unexpired
pendingLogin_AtExpiry(d, email) ==
    /\ d.email = email
    /\ d.loginVerificationExpiresAt # Null
    /\ d.loginVerificationExpiresAt >= now

\* the filter {email, loginVerificationExpiresAt: {$gt: new Date()}}
pendingLogin(d, email) ==
    /\ d.email = email
    /\ d.loginVerificationExpiresAt # Null
    /\ d.loginVerificationExpiresAt > now

\* mutant: the code is cleared but the account is not marked verified
verified_CodeOnly(admin) ==
    [ admin EXCEPT !.loginVerificationCodeHash = <<>>,
                   !.loginVerificationExpiresAt = Null ]

\* mutant: the code is left in place
verified_KeepsCode(admin) == [admin EXCEPT !.isVerified = TRUE]

\* the assignments of lines 480-482
verified(admin) ==
    [ admin EXCEPT !.isVerified = TRUE,
                   !.loginVerificationCodeHash = <<>>,
                   !.loginVerificationExpiresAt = Null ]

verifyLogin(c) ==
    LET r == c.r
        email == normalizeEmail(r.email)
        code == trim(r.code)
        admin == findOne(c.db, {id \in DOMAIN c.db : pendingLogin(c.db[id], email)})
        hash == sha256(code)
        saved == Saved(c, verified(r.doc))
    IN  IF r.pc = "verify_find"
        THEN IF email = <<>> \/ code = <<>>
             THEN Reply(c, 400, "Email and verification code are required", NoToken, <<>>)
             ELSE IF admin = NoDoc
             THEN Reply(c, 400, "Invalid or expired verification code", NoToken, <<>>)
             ELSE IF hash # admin.loginVerificationCodeHash
             THEN Reply([c EXCEPT !.r.doc = admin], 400,
                        "Invalid or expired verification code", NoToken, <<>>)
             ELSE [c EXCEPT !.r.doc = admin, !.r.pc = "verify_save"]
        ELSE \* verify_save
             Try(saved, Reply(saved, 200, "Verification successful. Logged in.",
                              jwtSign(saved.r.doc), <<>>))

(***************************************************************************)
(* POST /admin/forgot-password and /admin/reset-password                   *)
(***************************************************************************)
GenericAck == "If this email exists, a reset code has been sent."

\* the assignments of lines 514-518
resetIssued(admin, resetCode) ==
    [ admin EXCEPT !.resetPasswordTokenHash = sha256(resetCode),
                   !.resetPasswordExpiresAt = now + RESET_CODE_TTL_MS ]

\* mutant: the expiry instant itself still counts as unexpired
pendingReset_AtExpiry(d, email, tokenHash) ==
    /\ d.email = email
    /\ d.resetPasswordTokenHash = tokenHash
    /\ d.resetPasswordExpiresAt # Null
    /\ d.resetPasswordExpiresAt >= now

\* the filter {email, resetPasswordTokenHash, resetPasswordExpiresAt: {$gt: new Date()}}
pendingReset(d, email, tokenHash) ==
    /\ d.email = email
    /\ d.resetPasswordTokenHash = tokenHash
    /\ d.resetPasswordExpiresAt # Null
    /\ d.resetPasswordExpiresAt > now

\* mutant: the reset code is left in place
resetDone_KeepsCode(admin, newPassword) ==
    [ admin EXCEPT !.passwordHash = bcryptHash(newPassword) ]

\* the assignments of lines 590-592
resetDone(admin, newPassword) ==
    [ admin EXCEPT !.passwordHash = bcryptHash(newPassword),
                   !.resetPasswordTokenHash = <<>>,
                   !.resetPasswordExpiresAt = Null ]

forgotPassword(c) ==
    LET r == c.r
        email == normalizeEmail(r.email)
        admin == findOne(c.db, byEmail(c.db, email))
        resetCode == generateVerificationCode(r.rand)
        saved == Saved(c, resetIssued(r.doc, resetCode))
        out == sendVerificationCode(r)
        c1 == [saved EXCEPT !.r.mail = out]
        afterSave ==
            IF out = "sent" THEN Reply(c1, 200, GenericAck, NoToken, <<>>)
            ELSE IF out = "threw" THEN Fail(c1)
            ELSE IF ~env.production
            THEN Reply(c1, 200, "Email is not configured. Use this reset code locally.",
                       NoToken, resetCode)
            ELSE Reply(c1, 500,
                       "Email is not configured. Set SMTP credentials in server .env.",
                       NoToken, <<>>)
    IN  IF r.pc = "forgot_find"
        THEN IF email = <<>> THEN Reply(c, 400, "Email is required", NoToken, <<>>)
             ELSE IF admin = NoDoc THEN Reply(c, 200, GenericAck, NoToken, <<>>)
             ELSE [c EXCEPT !.r.doc = admin, !.r.pc = "forgot_save"]
        ELSE \* forgot_save
             Try(saved, afterSave)

resetPassword(c) ==
    LET r == c.r
        email == normalizeEmail(r.email)
        token == trim(r.token)
        code == trim(r.code)
        newPassword == r.password
        resetValue == IF code # <<>> THEN code ELSE token
        tokenHash == sha256(resetValue)
        admin == findOne(c.db, {id \in DOMAIN c.db :
                                    pendingReset(c.db[id], email, tokenHash)})
        saved == Saved(c, resetDone(r.doc, newPassword))
    IN  IF r.pc = "reset_find"
        THEN IF email = <<>> \/ newPassword = <<>> \/ (token = <<>> /\ code = <<>>)
             THEN Reply(c, 400,
                        "Email, reset code (or token), and new password are required",
                        NoToken, <<>>)
             ELSE IF Len(newPassword) < MIN_PASSWORD_LENGTH
             THEN Reply(c, 400, "Password must be at least 6 characters", NoToken, <<>>)
             ELSE IF admin = NoDoc
             THEN Reply(c, 400, "Invalid or expired reset code", NoToken, <<>>)
             ELSE [c EXCEPT !.r.doc = admin, !.r.pc = "reset_save"]
        ELSE \* reset_save
             Try(saved, Reply(saved, 200, "Password reset successful. Please login.",
                              NoToken, <<>>))

(***************************************************************************)
(* One store operation of a request, and a request run to its response.    *)
(***************************************************************************)
Step(c) ==
    LET pc == c.r.pc
    IN  CASE pc \in {"seed_find", "seed_save", "seed_create"} -> ensureSeedAdmins(c)
          [] pc \in {"save_code", "bypass"} -> issueCode(c)
          [] pc = "list_find" -> listAdmins(c)
          [] pc \in {"delete_count", "delete_find", "delete_one"} -> deleteAdmin(c)
          [] pc \in {"signup_gate", "signup_find", "signup_create"} -> signup(c)
          [] pc \in {"create_find", "create_create"} -> createAdmin(c)
          [] pc = "resend_find" -> resendVerification(c)
          [] pc = "login_find" -> login(c)
          [] pc \in {"verify_find", "verify_save"} -> verifyLogin(c)
          [] pc \in {"forgot_find", "forgot_save"} -> forgotPassword(c)
          [] OTHER -> resetPassword(c)

\* the steps in which a code is generated and mailed: Math.random() and the
\* behaviour of the mail paths are chosen there
Steps(c) ==
    IF c.r.pc \in {"save_code", "forgot_save"}
    THEN { Step([c EXCEPT !.r.rand = k, !.r.resend = m[1], !.r.smtp = m[2]]) :
             k \in RandomDraws, m \in MailBehaviours }
    ELSE { Step(c) }

RECURSIVE Runs(_)
Runs(c) == IF c.r.pc = "done" THEN {c} ELSE UNION { Runs(c1) : c1 \in Steps(c) }

Ctx(r) == [db |-> admins, nextId |-> nextId, tokens |-> tokens, r |-> r, resp |-> NoResp]

\* the ways the request can go when handled alone, from its first store
\* operation to its response
Handled(r) == Runs(Ctx(r))

\* the request r handled right after the request of context c
HandledAfter(c, r) == Runs([c EXCEPT !.r = r, !.resp = NoResp])

Request(op, pc) == [Idle EXCEPT !.op = op, !.pc = pc]

(***************************************************************************)
(* Requests, by handler.                                                   *)
(***************************************************************************)
Slots == 1..MaxInFlight

listRequest(t) == [Request("list", "seed_find") EXCEPT !.requester = t]

deleteRequest(t, id) ==
    [Request("delete", "delete_count") EXCEPT !.requester = t, !.targetId = id]

signupRequest(n, e, p) ==
    [Request("signup", "signup_gate") EXCEPT !.name = n, !.email = e, !.password = p]

createRequest(t, n, e, p) ==
    [Request("create", "seed_find") EXCEPT !.requester = t, !.name = n, !.email = e,
                                           !.password = p]

resendRequest(e) == [Request("resend", "resend_find") EXCEPT !.email = e]

loginRequest(e, p) ==
    [Request("login", "seed_find") EXCEPT !.email = e, !.password = p]

\* does a verify-login with this body present a consumed code for its account?
IsReplay(e, code) ==
    \E u \in consumed :
        /\ u.account \in DOMAIN admins
        /\ admins[u.account].email = normalizeEmail(e)
        /\ u.code = trim(code)

verifyRequest(e, code) ==
    [Request("verify", "verify_find") EXCEPT !.email = e, !.code = code,
                                             !.replay = IsReplay(e, code)]

forgotRequest(e) == [Request("forgot", "seed_find") EXCEPT !.email = e]

resetRequest(e, code, token, p) ==
    [Request("reset", "reset_find") EXCEPT !.email = e, !.code = code, !.token = token,
                                           !.password = p]

(***************************************************************************)
(* Requests handled one at a time, each from start to response. U is the   *)
(* set of request bodies a specification draws from.                       *)
(***************************************************************************)
\* the history variable after the request of context c has completed
Consumed(c) ==
    IF c.resp.op = "verify" /\ c.resp.token # NoToken
    THEN consumed \cup {[account |-> c.r.doc._id, code |-> trim(c.r.code)]}
    ELSE IF c.r.op \in {"signup", "resend", "login"} /\ c.r.mail # "none"
    THEN {u \in consumed : u.account # c.r.doc._id}
    ELSE consumed

\* the response is sent: the store, the issued tokens and the history are as
\* the request left them
Respond(c) ==
    /\ admins' = c.db
    /\ nextId' = c.nextId
    /\ tokens' = c.tokens
    /\ resp' = c.resp
    /\ consumed' = Consumed(c)
    /\ UNCHANGED <<now, env, inflight>>

ListAdmins ==
    \E t \in tokens : \E c \in Handled(listRequest(t)) :
        /\ c.nextId <= MaxIds
        /\ Respond(c)

DeleteAdmin ==
    \E t \in tokens, id \in Ids : \E c \in Handled(deleteRequest(t, id)) :
        /\ c.nextId <= MaxIds
        /\ Respond(c)

Signup(U) ==
    \E n \in U.names, e \in U.emails, p \in U.passwords :
        \E c \in Handled(signupRequest(n, e, p)) :
            /\ c.nextId <= MaxIds
            /\ Respond(c)

CreateAdmin(U) ==
    \E t \in tokens, n \in U.names, e \in U.emails, p \in U.passwords :
        \E c \in Handled(createRequest(t, n, e, p)) :
            /\ c.nextId <= MaxIds
            /\ Respond(c)

ResendVerification(U) ==
    \E e \in U.emails : \E c \in Handled(resendRequest(e)) :
        /\ c.nextId <= MaxIds
        /\ Respond(c)

Login(U) ==
    \E e \in U.emails, p \in U.passwords : \E c \in Handled(loginRequest(e, p)) :
        /\ c.nextId <= MaxIds
        /\ Respond(c)

VerifyLogin(U) ==
    \E e \in U.emails, code \in U.codes : \E c \in Handled(verifyRequest(e, code)) :
        /\ c.nextId <= MaxIds
        /\ Respond(c)

ForgotPassword(U) ==
    \E e \in U.emails : \E c \in Handled(forgotRequest(e)) :
        /\ c.nextId <= MaxIds
        /\ Respond(c)

\* the code is sent in the body's "code" field or in its legacy "token" field
ResetPassword(U) ==
    \E e \in U.emails, code \in U.codes, p \in U.passwords, legacy \in BOOLEAN :
        \E c \in Handled(IF legacy THEN resetRequest(e, <<>>, code, p)
                                   ELSE resetRequest(e, code, <<>>, p)) :
            /\ c.nextId <= MaxIds
            /\ Respond(c)

Tick ==
    /\ now < MaxTicks * TickMs
    /\ now' = now + TickMs
    /\ UNCHANGED <<admins, nextId, env, tokens, inflight, resp, consumed>>

InitWith(envs) ==
    /\ admins = <<>>
    /\ nextId = 0
    /\ now = 0
    /\ env \in envs
    /\ tokens = {}
    /\ inflight = [s \in Slots |-> Idle]
    /\ resp = NoResp
    /\ consumed = {}

(***************************************************************************)
(* Spec: the login-code flow (signup, resend-verification, login,          *)
(* verify-login) one request at a time, with the default single seed and   *)
(* public signup enabled, in every mode and verification policy.           *)
(***************************************************************************)
Env(production, require, disableSignup, accounts) ==
    [ production |-> production,
      REQUIRE_ADMIN_EMAIL_VERIFICATION |-> require,
      DISABLE_PUBLIC_ADMIN_SIGNUP |-> disableSignup,
      ADMIN_ACCOUNTS |-> accounts ]

CodeEnvs == {Env(p, q, FALSE, <<>>) : p \in BOOLEAN, q \in BOOLEAN}

CodeBodies ==
    [ names |-> {<<" ", "M">>},
      emails |-> {<<>>, <<" ", "B">>, EmailA},
      passwords |-> {PwShort, PwA, PwB},
      codes |-> RawCodes ]

Init == InitWith(CodeEnvs)

Next ==
    \/ Signup(CodeBodies)
    \/ ResendVerification(CodeBodies)
    \/ Login(CodeBodies)
    \/ VerifyLogin(CodeBodies)
    \/ Tick

Spec == Init /\ [][Next]_vars

(***************************************************************************)
(* SpecFlows: the login-code and the reset-code flows together, at one     *)
(* instant (the clock does not advance).                                   *)
(***************************************************************************)
FlowBodies ==
    [ names |-> {<<" ", "M">>},
      emails |-> {<<" ", "B">>, EmailA},
      passwords |-> {PwA, PwB},
      codes |-> GeneratedCodes ]

NextFlows ==
    \/ Signup(FlowBodies)
    \/ ResendVerification(FlowBodies)
    \/ Login(FlowBodies)
    \/ VerifyLogin(FlowBodies)
    \/ ForgotPassword(FlowBodies)
    \/ ResetPassword(FlowBodies)

SpecFlows == Init /\ [][NextFlows]_vars

(***************************************************************************)
(* C1. A verify-login request with a non-empty (trimmed) email and code    *)
(* returns a session token if and only if an account with the normalized   *)
(* email exists, the SHA-256 of the code, as the handler reads it          *)
(* (trimmed), equals that account's stored login-code hash, and now is     *)
(* strictly before the stored expiry. Every other such request gets status *)
(* 400 with the one message "Invalid or expired verification code",        *)
(* whatever the cause.                                                     *)
(***************************************************************************)
VerifyAccepts(e, code) ==
    \E id \in DOMAIN admins :
        /\ admins[id].email = normalizeEmail(e)
        /\ admins[id].loginVerificationCodeHash = sha256(trim(code))
        /\ admins[id].loginVerificationExpiresAt # Null
        /\ now < admins[id].loginVerificationExpiresAt

C1_VerifyLoginIff ==
    \A e \in CodeBodies.emails, code \in CodeBodies.codes :
        (normalizeEmail(e) # <<>> /\ trim(code) # <<>>) =>
            \A c \in Handled(verifyRequest(e, code)) :
                IF VerifyAccepts(e, code)
                THEN /\ c.resp.status = 200
                     /\ c.resp.token # NoToken
                     /\ c.resp.token.email = normalizeEmail(e)
                ELSE /\ c.resp.status = 400
                     /\ c.resp.token = NoToken
                     /\ c.resp.message = "Invalid or expired verification code"

\* a verify-login returned a token, after the clock has advanced
C1_Witness ==
    /\ resp.op = "verify"
    /\ resp.status = 200
    /\ resp.token # NoToken
    /\ now > 0

(***************************************************************************)
(* C2. A login code is usable at most once: a verify-login that presents,  *)
(* for the same account, a code that an earlier, completed verify-login    *)
(* accepted, with no new login code stored for the account in between, is  *)
(* rejected.                                                               *)
(***************************************************************************)
C2_SingleUse ==
    /\ resp.replay => (resp.op = "verify" /\ resp.status = 400 /\ resp.token = NoToken)
    /\ \A u \in consumed :
           u.account \in DOMAIN admins =>
               /\ admins[u.account].loginVerificationCodeHash = <<>>
               /\ admins[u.account].loginVerificationExpiresAt = Null

\* the second attempt with the consumed code has been made
C2_Witness == resp.replay /\ resp.op = "verify" /\ consumed # {}

(***************************************************************************)
(* SpecAdmins: administrators log in, list, create and delete admin        *)
(* accounts, one request at a time, with the default single seed.          *)
(***************************************************************************)
AdminBodies ==
    [ names |-> {<<" ", "M">>},
      emails |-> {<<" ", "B">>, EmailA},
      passwords |-> {PwA, PwB},
      codes |-> {} ]

InitAdmins == InitWith({Env(FALSE, FALSE, FALSE, <<>>)})

NextAdmins ==
    \/ Login(AdminBodies)
    \/ ListAdmins
    \/ CreateAdmin(AdminBodies)
    \/ DeleteAdmin

SpecAdmins == InitAdmins /\ [][NextAdmins]_vars

\* every identity a delete request can come with: a token this server
\* issued, whether or not its account still exists
Requesters == tokens

\* every target a delete request can name: a stored _id or one that matches
\* no account
Targets == Ids \cup {MaxIds + 1}

(***************************************************************************)
(* C3. A delete-admin request issued while exactly one admin account       *)
(* exists is rejected with "Cannot delete the last admin account" and the  *)
(* account is not removed, whoever the requester is and whatever the       *)
(* target id is (the requester's own, another one, or one that matches no  *)
(* account).                                                               *)
(***************************************************************************)
C3_LastAdminKept ==
    countDocuments(admins) = 1 =>
        \A t \in Requesters, id \in Targets :
            \A c \in Handled(deleteRequest(t, id)) :
                /\ c.resp.status = 400
                /\ c.resp.message = "Cannot delete the last admin account"
                /\ c.db = admins

\* the sole account was the target of a rejected delete
C3_Witness ==
    /\ resp.op = "delete"
    /\ resp.status = 400
    /\ resp.message = "Cannot delete the last admin account"
    /\ countDocuments(admins) = 1
    /\ Cardinality(tokens) >= 2

(***************************************************************************)
(* C5. A delete-admin request whose target has the requester's id or the   *)
(* requester's lower-cased email is rejected and removes nothing, also     *)
(* when two or more accounts exist; a delete request that passes the       *)
(* last-admin, not-found and self-deletion checks removes exactly the      *)
(* target account and no other.                                            *)
(***************************************************************************)
SameAccount(t, target) ==
    \/ t.id = target._id
    \/ toLowerCase(t.email) = toLowerCase(target.email)

C5_NoSelfDelete ==
    \A t \in Requesters, id \in Targets :
        \A c \in Handled(deleteRequest(t, id)) :
            /\ (id \in DOMAIN admins /\ SameAccount(t, admins[id])) =>
                   /\ c.resp.status = 400
                   /\ c.db = admins
            /\ ( /\ countDocuments(admins) >= 2
                 /\ id \in DOMAIN admins
                 /\ ~SameAccount(t, admins[id]) ) =>
                   /\ c.resp.status = 200
                   /\ DOMAIN c.db = DOMAIN admins \ {id}
                   /\ \A other \in DOMAIN c.db : c.db[other] = admins[other]
            /\ c.resp.status # 200 => c.db = admins

\* with two accounts, a requester was refused the deletion of an account
\* that has their email under an _id no token was issued for
C5_Witness ==
    /\ resp.op = "delete"
    /\ resp.message = "You cannot delete your own admin account"
    /\ countDocuments(admins) >= 2
    /\ resp.account \in DOMAIN admins
    /\ \A t \in tokens : t.id # resp.account

(***************************************************************************)
(* SpecSeed: seed reconciliation under every seed configuration of         *)
(* SeedLists, with the requests that make the stored accounts drift from   *)
(* the seeds (a password reset) and the requests that reconcile them.      *)
(***************************************************************************)
SeedBodies ==
    [ names |-> {<<" ", "M">>},
      emails |-> {EmailA, <<" ", "B">>},
      passwords |-> {PwA, PwB},
      codes |-> GeneratedCodes ]

InitSeed == InitWith({Env(FALSE, FALSE, FALSE, l) : l \in SeedLists})

NextSeeds ==
    \/ Login(SeedBodies)
    \/ ListAdmins
    \/ ForgotPassword(SeedBodies)
    \/ ResetPassword(SeedBodies)

SpecSeed == InitSeed /\ [][NextSeeds]_vars

\* a request that calls ensureSeedAdmins and performs no other store write
reconcile == listRequest(NoToken)

(***************************************************************************)
(* C7. ensureSeedAdmins is idempotent: for every valid seed configuration  *)
(* (a list or the single fallback seed, also a list that names the same    *)
(* normalized email more than once), when it is called twice in a row with *)
(* nothing in between, the second call performs no store write and leaves  *)
(* every account unchanged.                                                *)
(***************************************************************************)
C7_SeedIdempotent ==
    \A c1 \in Handled(reconcile) :
        c1.resp.status = 200 =>
            \A c2 \in HandledAfter(c1, reconcile) :
                /\ c2.resp.status = 200
                /\ c2.resp.writes = 0
                /\ c2.db = c1.db

(***************************************************************************)
(* C8. When a seed entry with forceSync names an existing account whose    *)
(* stored password differs from the seed password, then after              *)
(* reconciliation the stored password is the seed password: a login with   *)
(* the seed password passes the password check, a login with the previous  *)
(* password is rejected with "Invalid credentials", and the account is     *)
(* verified with its login-code hash and expiry cleared.                   *)
(***************************************************************************)
C8_ForceSyncPassword ==
    \A i \in 1..Len(seedsOf(env)) :
        LET seed == seedsOf(env)[i]
        IN  (seed.forceSync /\ seed.email # <<>> /\ seed.password # <<>>) =>
            \A id \in byEmail(admins, normalizeEmail(seed.email)) :
                ~bcryptCompare(seed.password, admins[id].passwordHash) =>
                \A c \in Handled(reconcile) :
                    c.resp.status = 200 =>
                        /\ bcryptCompare(seed.password, c.db[id].passwordHash)
                        /\ c.db[id].isVerified
                        /\ c.db[id].loginVerificationCodeHash = <<>>
                        /\ c.db[id].loginVerificationExpiresAt = Null
                        /\ \A c2 \in HandledAfter(c, loginRequest(seed.email, seed.password)) :
                               c2.resp.status = 200 /\ c2.resp.token # NoToken
                        /\ \A previous \in SeedBodies.passwords :
                               bcryptCompare(previous, admins[id].passwordHash) =>
                                   \A c2 \in HandledAfter(c, loginRequest(seed.email, previous)) :
                                       /\ c2.resp.status = 401
                                       /\ c2.resp.message = "Invalid credentials"

(***************************************************************************)
(* SpecRace: requests handled concurrently. A request is accepted into a   *)
(* free slot and then advances one store operation at a time, interleaved  *)
(* with the store operations of the other request in flight; nothing but   *)
(* the store coordinates them.                                             *)
(***************************************************************************)
RaceBodies ==
    [ names |-> {<<" ", "M">>},
      emails |-> {EmailA, <<" ", "B">>},
      passwords |-> {PwA},
      codes |-> {} ]

\* the bodies that name the seed email, and those that name another
SeedEmailBodies == [RaceBodies EXCEPT !.emails = {DEFAULT_PRIMARY_ADMIN_EMAIL}]

OtherEmailBodies == [RaceBodies EXCEPT !.emails = {<<" ", "B">>}]

Free(s) == inflight[s].op = "idle"

\* the context in which the request in slot s performs its next operation
Running(s) ==
    [db |-> admins, nextId |-> nextId, tokens |-> tokens, r |-> inflight[s], resp |-> NoResp]

BeginLogin(U) ==
    \E s \in Slots, e \in U.emails, p \in U.passwords :
        /\ Free(s)
        /\ inflight' = [inflight EXCEPT ![s] = loginRequest(e, p)]
        /\ UNCHANGED <<admins, nextId, now, env, tokens, resp, consumed>>

BeginSignup(U) ==
    \E s \in Slots, n \in U.names, e \in U.emails,
       p \in U.passwords :
        /\ Free(s)
        /\ inflight' = [inflight EXCEPT ![s] = signupRequest(n, e, p)]
        /\ UNCHANGED <<admins, nextId, now, env, tokens, resp, consumed>>

BeginCreate(U) ==
    \E s \in Slots, t \in tokens, n \in U.names, e \in U.emails,
       p \in U.passwords :
        /\ Free(s)
        /\ inflight' = [inflight EXCEPT ![s] = createRequest(t, n, e, p)]
        /\ UNCHANGED <<admins, nextId, now, env, tokens, resp, consumed>>

BeginDelete ==
    \E s \in Slots, t \in tokens, id \in Ids :
        /\ Free(s)
        /\ inflight' = [inflight EXCEPT ![s] = deleteRequest(t, id)]
        /\ UNCHANGED <<admins, nextId, now, env, tokens, resp, consumed>>

\* the request in slot s performs its next store operation, and responds
\* when that was its last
Advance ==
    \E s \in Slots :
        /\ ~Free(s)
        /\ \E c \in Steps(Running(s)) :
               /\ c.nextId <= MaxIds
               /\ admins' = c.db
               /\ nextId' = c.nextId
               /\ tokens' = c.tokens
               /\ resp' = IF c.r.pc = "done" THEN c.resp ELSE resp
               /\ consumed' = IF c.r.pc = "done" THEN Consumed(c) ELSE consumed
               /\ inflight' = [inflight EXCEPT ![s] = IF c.r.pc = "done" THEN Idle ELSE c.r]
               /\ UNCHANGED <<now, env>>

\* SpecRace: administrators logging in, creating and deleting accounts
NextRace ==
    \/ BeginLogin(RaceBodies)
    \/ BeginCreate(RaceBodies)
    \/ BeginDelete
    \/ Advance

SpecRace == InitAdmins /\ [][NextRace]_vars

\* SpecCreateRace: every request that creates an account (signup, create
\* admin, and the seed reconciliation they and login start with); the seed
\* account logs in and creates the other account, which also signs up
NextCreateRace ==
    \/ BeginLogin(SeedEmailBodies)
    \/ BeginSignup(RaceBodies)
    \/ BeginCreate(OtherEmailBodies)
    \/ Advance

SpecCreateRace == InitAdmins /\ [][NextCreateRace]_vars

\* SpecSignupRace: signups for the seed email while administrators create
\* and delete accounts
NextSignupRace ==
    \/ BeginLogin(RaceBodies)
    \/ BeginSignup(SeedEmailBodies)
    \/ BeginCreate(OtherEmailBodies)
    \/ BeginDelete
    \/ Advance

SpecSignupRace == InitAdmins /\ [][NextSignupRace]_vars

(***************************************************************************)
(* C4. Once seeding has created at least one account, the number of admin  *)
(* accounts is at least 1 in every reachable state, under any sequence and *)
(* any interleaving of requests, also with two delete-admin requests       *)
(* handled concurrently.                                                   *)
(***************************************************************************)
C4_AtLeastOneAdmin == nextId > 0 => countDocuments(admins) >= 1

SameLoginFields(d1, d2) ==
    /\ d1.loginVerificationCodeHash = d2.loginVerificationCodeHash
    /\ d1.loginVerificationExpiresAt = d2.loginVerificationExpiresAt
    /\ d1.isVerified = d2.isVerified

SameResetFields(d1, d2) ==
    /\ d1.resetPasswordTokenHash = d2.resetPasswordTokenHash
    /\ d1.resetPasswordExpiresAt = d2.resetPasswordExpiresAt

ResetAccepts(db, e, code) ==
    \E id \in DOMAIN db : pendingReset(db[id], normalizeEmail(e), sha256(trim(code)))

C6_NoInterference ==
    \A e \in FlowBodies.emails :
        /\ \A code \in FlowBodies.codes : \A c \in Handled(verifyRequest(e, code)) :
               c.resp.token # NoToken =>
                   /\ \A id \in DOMAIN admins : SameResetFields(c.db[id], admins[id])
                   /\ \A rc \in FlowBodies.codes :
                          ResetAccepts(admins, e, rc) =>
                              \A c2 \in HandledAfter(c, resetRequest(e, rc, <<>>, PwB)) :
                                  c2.resp.status = 200
        /\ \A c \in Handled(forgotRequest(e)) :
               /\ \A id \in DOMAIN admins : SameLoginFields(c.db[id], admins[id])
               /\ \A code \in FlowBodies.codes :
                      VerifyAccepts(e, code) =>
                          \A c2 \in HandledAfter(c, verifyRequest(e, code)) :
                              c2.resp.token # NoToken
        /\ \A rc \in FlowBodies.codes, p \in FlowBodies.passwords :
               \A c \in Handled(resetRequest(e, rc, <<>>, p)) :
                   c.resp.status = 200 =>
                       /\ \A id \in DOMAIN admins : SameLoginFields(c.db[id], admins[id])
                       /\ \A code \in FlowBodies.codes :
                              VerifyAccepts(e, code) =>
                                  \A c2 \in HandledAfter(c, verifyRequest(e, code)) :
                                      c2.resp.token # NoToken

(***************************************************************************)
(* C10. In production mode no response of signup, resend-verification,     *)
(* login, verify-login, forgot-password or reset-password carries a raw    *)
(* login code or reset code, whatever the mail paths do and whatever the   *)
(* verification policy; a response carries a raw code only outside         *)
(* production and only when no mail path delivered the message.            *)
(***************************************************************************)
C10_NoCodeInProduction ==
    /\ env.production => resp.code = <<>>
    /\ resp.code # <<>> => (~env.production /\ resp.mail = "unsent")

\* production mode, a code was stored and no mail path is configured
C10_Witness ==
    /\ env.production
    /\ resp.op \in {"signup", "resend", "login", "forgot"}
    /\ resp.mail = "unsent"
    /\ resp.writes > 0

(***************************************************************************)
(* C11. Forgot-password does not reveal whether an email belongs to an     *)
(* account: for every request with a non-empty email, whenever an email    *)
(* transport is configured, the response is the generic acknowledgment     *)
(* (status 200, the same message) whether or not the email has an account, *)
(* also when the delivery attempt itself fails.                            *)
(***************************************************************************)
C11_ForgotGeneric ==
    \A e \in FlowBodies.emails :
        normalizeEmail(e) # <<>> =>
            \A c \in Handled(forgotRequest(e)) :
                c.resp.mail # "unsent" =>
                    /\ c.resp.status = 200
                    /\ c.resp.message = GenericAck

(***************************************************************************)
(* C12. A forgot-password request for an email that matches no account     *)
(* returns the generic success message, performs no store mutation (no     *)
(* account is created or modified, in any store state, also one in which   *)
(* the configured seed accounts do not yet exist or have drifted) and      *)
(* makes no email delivery attempt.                                        *)
(***************************************************************************)
C12_ForgotUnknownEmail ==
    \A e \in SeedBodies.emails \cup {<<"c">>} :
        (normalizeEmail(e) # <<>> /\ byEmail(admins, normalizeEmail(e)) = {}) =>
            \A c \in Handled(forgotRequest(e)) :
                /\ c.resp.status = 200
                /\ c.resp.message = GenericAck
                /\ c.resp.mail = "none"
                /\ c.resp.writes = 0
                /\ c.db = admins

(***************************************************************************)
(* SpecReset: the reset-code flow for the seed account as the clock        *)
(* advances by TickMs up to and past the code's expiry.                    *)
(***************************************************************************)
ResetBodies ==
    [ names |-> {},
      emails |-> {EmailA},
      passwords |-> {PwB},
      codes |-> {generateVerificationCode(0)} ]

NextReset ==
    \/ ForgotPassword(ResetBodies)
    \/ ResetPassword(ResetBodies)
    \/ Tick

SpecReset == Init /\ [][NextReset]_vars

(***************************************************************************)
(* C13. A reset code is stored with expiry = issue time + 15 minutes, and  *)
(* a reset-password request that presents the correct code at or after     *)
(* that expiry is rejected with "Invalid or expired reset code"; the       *)
(* rejected request leaves the account's password hash, reset-token hash   *)
(* and reset-token expiry unchanged.                                       *)
(***************************************************************************)
C13_ResetExpiry ==
    /\ \A e \in ResetBodies.emails : \A c \in Handled(forgotRequest(e)) :
           c.resp.mail # "none" =>
               /\ c.resp.account \in DOMAIN c.db
               /\ c.db[c.resp.account].resetPasswordTokenHash \in
                      {sha256(code) : code \in GeneratedCodes}
               /\ c.db[c.resp.account].resetPasswordExpiresAt = now + 15 * 60 * 1000
    /\ \A id \in DOMAIN admins, code \in GeneratedCodes :
           ( /\ admins[id].resetPasswordTokenHash = sha256(code)
             /\ admins[id].resetPasswordExpiresAt # Null
             /\ now >= admins[id].resetPasswordExpiresAt ) =>
               \A p \in {PwA, PwB}, legacy \in BOOLEAN :
                   \A c \in Handled(IF legacy
                                    THEN resetRequest(admins[id].email, <<>>, code, p)
                                    ELSE resetRequest(admins[id].email, code, <<>>, p)) :
                       /\ c.resp.status = 400
                       /\ c.resp.message = "Invalid or expired reset code"
                       /\ c.db = admins

\* the only code a reset request of SpecReset presents is the one stored,
\* the clock is at its expiry, and the last request was a rejected reset
C13_Witness ==
    /\ resp.op = "reset"
    /\ resp.status = 400
    /\ resp.message = "Invalid or expired reset code"
    /\ \E id \in DOMAIN admins :
           /\ admins[id].resetPasswordTokenHash = sha256(generateVerificationCode(0))
           /\ admins[id].resetPasswordExpiresAt = now

\* a code as generateVerificationCode returns it
IsSixDigits(code) ==
    /\ Len(code) = 6
    /\ \A i \in 1..Len(code) : \E d \in 1..Len(DigitChars) : code[i] = DigitChars[d]

\* the outcomes of a login with the right password for the unverified
\* account id when no mail path is configured
UndeliveredLogins(id) ==
    { c \in UNION { Handled(loginRequest(admins[id].email, p)) :
                      p \in {q \in CodeBodies.passwords :
                               bcryptCompare(q, admins[id].passwordHash)} } :
        c.resp.mail = "unsent" }

EchoedCodeVerifies(id, c) ==
    /\ IsSixDigits(c.resp.code)
    /\ c.resp.token = NoToken
    /\ \A c2 \in HandledAfter(c, verifyRequest(admins[id].email, c.resp.code)) :
           /\ c2.resp.status = 200
           /\ c2.resp.token = [id |-> id, email |-> admins[id].email]

(***************************************************************************)
(* C14 (as stated). In non-production mode with no email transport         *)
(* configured, a login with the correct password for an unverified account *)
(* returns a response that contains a literal 6-character verification     *)
(* code, and submitting that code to verify-login returns a session token, *)
(* for either value of the require-admin-email-verification flag.          *)
(***************************************************************************)
C14_LoginEchoesCode ==
    ~env.production =>
        \A id \in DOMAIN admins :
            ~admins[id].isVerified =>
                \A c \in UndeliveredLogins(id) : EchoedCodeVerifies(id, c)

(***************************************************************************)
(* C14 (amended). In non-production mode with no email transport           *)
(* configured, a login with the correct password for an unverified account *)
(* returns, when the require-admin-email-verification policy is on, a      *)
(* response with a literal 6-digit code and no token, and that code        *)
(* submitted to verify-login before its expiry and before any re-issue     *)
(* returns a session token; when the policy is off the login verifies the  *)
(* account itself and returns a session token and no code.                 *)
(***************************************************************************)
C14_LoginEchoesCodeUnderPolicy ==
    /\ ~env.production =>
           \A id \in DOMAIN admins :
               ~admins[id].isVerified =>
                   \A c \in UndeliveredLogins(id) :
                       IF env.REQUIRE_ADMIN_EMAIL_VERIFICATION
                       THEN c.resp.status = 403 /\ EchoedCodeVerifies(id, c)
                       ELSE /\ c.resp.status = 200
                            /\ c.resp.token = [id |-> id, email |-> admins[id].email]
                            /\ c.resp.code = <<>>
                            /\ c.db[id].isVerified
    /\ ( /\ resp.op = "login"
         /\ resp.code # <<>>
         /\ resp.account \in DOMAIN admins
         /\ admins[resp.account].loginVerificationCodeHash = sha256(resp.code)
         /\ now < admins[resp.account].loginVerificationExpiresAt ) =>
           \A c2 \in Handled(verifyRequest(admins[resp.account].email, resp.code)) :
               c2.resp.token = [id |-> resp.account, email |-> admins[resp.account].email]

\* a login was answered with the code, which is still pending some time later
C14_Witness ==
    /\ ~env.production
    /\ env.REQUIRE_ADMIN_EMAIL_VERIFICATION
    /\ resp.op = "login"
    /\ resp.status = 403
    /\ IsSixDigits(resp.code)
    /\ resp.account \in DOMAIN admins
    /\ admins[resp.account].loginVerificationCodeHash = sha256(resp.code)
    /\ 0 < now /\ now < admins[resp.account].loginVerificationExpiresAt

(***************************************************************************)
(* C15. A self-service signup whose password is shorter than 6 characters  *)
(* is rejected with a validation error and no account is created: the set  *)
(* of admin accounts after the request equals the set before it, in every  *)
(* store state in which public signup is enabled, also one in which the    *)
(* configured seed accounts do not yet exist.                              *)
(***************************************************************************)
C15_ShortPasswordSignup ==
    ~env.DISABLE_PUBLIC_ADMIN_SIGNUP =>
        \A n \in CodeBodies.names, e \in CodeBodies.emails, p \in CodeBodies.passwords :
            Len(p) < 6 =>
                \A c \in Handled(signupRequest(n, e, p)) :
                    /\ c.resp.status = 400
                    /\ c.resp.writes = 0
                    /\ c.db = admins

(***************************************************************************)
(* C16. Resend-verification issues a new login code (new hash, expiry =    *)
(* now + 10 minutes) only for an existing account that is not yet          *)
(* verified; for an email with no account, or for an account already       *)
(* verified, the request fails and the login-code hash, login-code expiry  *)
(* and verified flag of the account are left unchanged.                    *)
(***************************************************************************)
C16_ResendOnlyUnverified ==
    \A e \in CodeBodies.emails :
        LET ids == byEmail(admins, normalizeEmail(e))
        IN  \A c \in Handled(resendRequest(e)) :
                IF ids = {} \/ \E id \in ids : admins[id].isVerified
                THEN /\ c.resp.status \in {400, 404}
                     /\ c.resp.writes = 0
                     /\ c.db = admins
                ELSE /\ c.resp.mail # "none"
                     /\ \A id \in ids :
                            \/ /\ ~c.db[id].isVerified
                               /\ c.db[id].loginVerificationCodeHash \in
                                      {sha256(code) : code \in GeneratedCodes}
                               /\ c.db[id].loginVerificationExpiresAt = now + 10 * 60 * 1000
                            \/ /\ c.resp.mail = "unsent"
                               /\ c.db[id] = handleMissingSmtpVerification(admins[id])
                     /\ \A id \in DOMAIN admins \ ids : c.db[id] = admins[id]

\* a resend stored a code for an unverified account and mailed it
C16_Witness ==
    /\ resp.op = "resend"
    /\ resp.status = 200
    /\ resp.mail = "sent"
    /\ resp.account \in DOMAIN admins
    /\ ~admins[resp.account].isVerified
    /\ admins[resp.account].loginVerificationExpiresAt = now + 10 * 60 * 1000

(***************************************************************************)
(* SpecVerifyRace: resend-verification and verify-login requests for an    *)
(* account that signed up, handled concurrently.                           *)
(***************************************************************************)
VerifyBodies ==
    [ names |-> {<<" ", "M">>},
      emails |-> {<<" ", "B">>},
      passwords |-> {PwA},
      codes |-> GeneratedCodes ]

BeginResend(U) ==
    \E s \in Slots, e \in U.emails :
        /\ Free(s)
        /\ inflight' = [inflight EXCEPT ![s] = resendRequest(e)]
        /\ UNCHANGED <<admins, nextId, now, env, tokens, resp, consumed>>

BeginVerify(U) ==
    \E s \in Slots, e \in U.emails, code \in U.codes :
        /\ Free(s)
        /\ inflight' = [inflight EXCEPT ![s] = verifyRequest(e, code)]
        /\ UNCHANGED <<admins, nextId, now, env, tokens, resp, consumed>>

NextVerifyRace ==
    \/ Signup(VerifyBodies)
    \/ BeginResend(VerifyBodies)
    \/ BeginVerify(VerifyBodies)
    \/ Advance

SpecVerifyRace == InitAdmins /\ [][NextVerifyRace]_vars

(***************************************************************************)
(* C17. In every reachable state, under any sequence and any interleaving  *)
(* of signup, login, resend-verification, verify-login, admin creation and *)
(* seed reconciliation, an account whose verified flag is true has an      *)
(* empty login-code hash and a null login-code expiry.                     *)
(***************************************************************************)
C17_VerifiedHasNoCode ==
    \A id \in DOMAIN admins :
        admins[id].isVerified =>
            /\ admins[id].loginVerificationCodeHash = <<>>
            /\ admins[id].loginVerificationExpiresAt = Null

(***************************************************************************)
(* C18. A session token is issued only after full verification: wherever   *)
(* login or verify-login returns a token, the account it is issued for is  *)
(* stored with its verified flag true, and no other request path (signup,  *)
(* resend-verification, forgot-password, reset-password, a login with a    *)
(* wrong password) returns a token.                                        *)
(***************************************************************************)
FlowRequests ==
    LET U == FlowBodies
    IN       { signupRequest(n, e, p) : n \in U.names, e \in U.emails, p \in U.passwords }
        \cup { resendRequest(e) : e \in U.emails }
        \cup { loginRequest(e, p) : e \in U.emails, p \in U.passwords }
        \cup { verifyRequest(e, code) : e \in U.emails, code \in U.codes }
        \cup { forgotRequest(e) : e \in U.emails }
        \cup UNION { { resetRequest(e, code, <<>>, p), resetRequest(e, <<>>, code, p) } :
                       e \in U.emails, code \in U.codes, p \in U.passwords }

C18_TokenOnlyIfVerified ==
    \A r \in FlowRequests : \A c \in Handled(r) :
        c.resp.token # NoToken =>
            /\ r.op \in {"login", "verify"}
            /\ c.resp.status = 200
            /\ c.resp.token.id \in DOMAIN c.db
            /\ c.db[c.resp.token.id].isVerified
            /\ c.db[c.resp.token.id].email = normalizeEmail(r.email)
            /\ c.resp.token.email = normalizeEmail(r.email)
            /\ r.op = "login" => bcryptCompare(r.password, c.db[c.resp.token.id].passwordHash)

\* a login for an unverified account returned a token after the bypass
\* stored the account as verified
C18_Witness ==
    /\ resp.op = "login"
    /\ resp.token # NoToken
    /\ resp.writes > 0
    /\ resp.token.id \in DOMAIN admins
    /\ admins[resp.token.id].isVerified
    /\ admins[resp.token.id].email # DEFAULT_PRIMARY_ADMIN_EMAIL

(***************************************************************************)
(* C19. The undeliverable-code bypass runs only when code delivery         *)
(* reported failure, in signup, resend-verification and login: with the    *)
(* require-verification policy off the account is stored verified with its *)
(* login-code hash and expiry cleared and the bypass is reported (login    *)
(* then returns a session token); with the policy on nothing more is       *)
(* written, the account stays unverified with the code just stored, and no *)
(* token is returned. When delivery succeeded the account is never         *)
(* auto-verified.                                                          *)
(***************************************************************************)
CodeRequests ==
    LET U == FlowBodies
    IN       { signupRequest(n, e, p) : n \in U.names, e \in U.emails, p \in U.passwords }
        \cup { resendRequest(e) : e \in U.emails }
        \cup { loginRequest(e, p) : e \in U.emails, p \in U.passwords }

BypassMessages ==
    { "Logged in (SMTP not configured).",
      "Admin created and verified (SMTP not configured).",
      "Admin verified (SMTP not configured)." }

PendingJustStored(d) ==
    /\ ~d.isVerified
    /\ d.loginVerificationCodeHash \in {sha256(code) : code \in GeneratedCodes}
    /\ d.loginVerificationExpiresAt = now + 10 * 60 * 1000

C19_BypassOnlyWhenUndelivered ==
    \A r \in CodeRequests : \A c \in Handled(r) :
        c.resp.mail # "none" =>
            LET d == c.db[c.resp.account]
            IN  IF c.resp.mail = "unsent" /\ ~env.REQUIRE_ADMIN_EMAIL_VERIFICATION
                THEN /\ d.isVerified
                     /\ d.loginVerificationCodeHash = <<>>
                     /\ d.loginVerificationExpiresAt = Null
                     /\ c.resp.message \in BypassMessages
                     /\ (c.resp.token # NoToken) = (r.op = "login")
                ELSE /\ PendingJustStored(d)
                     /\ c.resp.message \notin BypassMessages
                     /\ c.resp.token = NoToken

\* a signup was auto-verified because nothing could deliver its code
C19_Witness ==
    /\ ~env.REQUIRE_ADMIN_EMAIL_VERIFICATION
    /\ resp.op = "signup"
    /\ resp.mail = "unsent"
    /\ resp.message = "Admin created and verified (SMTP not configured)."
    /\ admins[resp.account].isVerified

(***************************************************************************)
(* C20. Two concurrent verify-login requests with the same valid code can  *)
(* both return a session token: a request that has read the account with   *)
(* its pending code (its findOne matched) returns a token when it saves,   *)
(* whatever was saved to the account since it read, and in particular      *)
(* after the other request has saved the account as verified and returned  *)
(* its token.                                                              *)
(***************************************************************************)
HasRead(s) == inflight[s].op = "verify" /\ inflight[s].pc = "verify_save"

C20_BothVerifiesGetToken ==
    \A s \in Slots :
        HasRead(s) =>
            \A c \in Steps(Running(s)) :
                /\ c.r.pc = "done"
                /\ c.resp.status = 200
                /\ c.resp.token = jwtSign(c.db[inflight[s].doc._id])
                /\ c.resp.token # NoToken

\* one request has saved and returned its token for the code; the other read
\* the account before that save (the stored account has no code any more) and
\* has not saved yet
C20_Witness ==
    \E s \in Slots :
        /\ HasRead(s)
        /\ ~inflight[s].doc.isVerified
        /\ admins[inflight[s].doc._id].isVerified
        /\ admins[inflight[s].doc._id].loginVerificationCodeHash = <<>>
        /\ [account |-> inflight[s].doc._id, code |-> trim(inflight[s].code)] \in consumed
        /\ resp.op = "verify"
        /\ resp.token # NoToken

(***************************************************************************)
(* C21. Every request rejected as a validation error (missing email,       *)
(* password, code or new password, or a password shorter than 6) in        *)
(* signup, admin creation, login, resend-verification, verify-login,       *)
(* forgot-password and reset-password is rejected before any store access: *)
(* when the rejection is sent the request has written nothing and the      *)
(* store is as it was when the request arrived, the writes of seed         *)
(* reconciliation included.                                                *)
(***************************************************************************)
ValidationMessages ==
    { "Email and password are required",
      "Password must be at least 6 characters",
      "Email is required",
      "Email and verification code are required",
      "Email, reset code (or token), and new password are required" }

ValidatedRequests ==
    LET U == CodeBodies
        P == U.passwords \cup {<<>>}
    IN       { signupRequest(n, e, p) : n \in U.names, e \in U.emails, p \in P }
        \cup { createRequest(t, n, e, p) : t \in tokens, n \in U.names, e \in U.emails, p \in P }
        \cup { loginRequest(e, p) : e \in U.emails, p \in P }
        \cup { resendRequest(e) : e \in U.emails }
        \cup { verifyRequest(e, code) : e \in U.emails, code \in U.codes }
        \cup { forgotRequest(e) : e \in U.emails }
        \cup { resetRequest(e, code, <<>>, p) : e \in U.emails, code \in U.codes, p \in P }

C21_ValidationBeforeStore ==
    \A r \in ValidatedRequests : \A c \in Handled(r) :
        (c.resp.status = 400 /\ c.resp.message \in ValidationMessages) =>
            /\ c.resp.writes = 0
            /\ c.db = admins

(***************************************************************************)
(* C22. A reset-password request succeeds exactly when an account matches  *)
(* (normalized email, hash of the submitted code or legacy token, expiry   *)
(* strictly after now); it then stores the hash of the new password and    *)
(* clears the reset-token hash and expiry. The reset code is single-use: a *)
(* second reset-password request with the same code after the first has    *)
(* completed, with no forgot-password in between, is rejected and changes  *)
(* nothing. An account whose reset-token hash is empty accepts no reset    *)
(* request at all.                                                         *)
(***************************************************************************)
ResetRequests(e) ==
    { resetRequest(e, code, token, p) :
        code \in RawCodes, token \in RawCodes, p \in {PwA, PwB} }

\* the reset value the handler hashes: the code, or the legacy token
resetValueOf(r) == IF trim(r.code) # <<>> THEN trim(r.code) ELSE trim(r.token)

C22_ResetSingleUse ==
    \A e \in {EmailA, <<" ", "A">>, <<" ", "B">>} : \A r \in ResetRequests(e) :
        \A c \in Handled(r) :
            /\ (c.resp.status = 200) =
                   (resetValueOf(r) # <<>> /\ ResetAccepts(admins, e, resetValueOf(r)))
            /\ IF c.resp.status = 200
               THEN LET id == c.resp.account
                    IN  /\ c.db[id].passwordHash = bcryptHash(r.password)
                        /\ c.db[id].resetPasswordTokenHash = <<>>
                        /\ c.db[id].resetPasswordExpiresAt = Null
                        /\ \A r2 \in ResetRequests(e) :
                               resetValueOf(r2) = resetValueOf(r) =>
                                   \A c2 \in HandledAfter(c, r2) :
                                       /\ c2.resp.status = 400
                                       /\ c2.resp.message = "Invalid or expired reset code"
                                       /\ c2.db = c.db
               ELSE /\ c.db = admins
                    /\ (\E id \in DOMAIN admins :
                            /\ admins[id].email = normalizeEmail(e)
                            /\ admins[id].resetPasswordTokenHash = <<>>)
                           => c.resp.status = 400

\* a reset has just succeeded for an account that now holds the new password
\* and no reset code
C22_Witness ==
    /\ resp.op = "reset"
    /\ resp.status = 200
    /\ resp.account \in DOMAIN admins
    /\ admins[resp.account].passwordHash = bcryptHash(PwB)
    /\ admins[resp.account].resetPasswordTokenHash = <<>>
    /\ admins[resp.account].resetPasswordExpiresAt = Null

(***************************************************************************)
(* C23. After a reset-password request succeeds with new password P for an *)
(* account, the next login request for that account with password P passes *)
(* the password check (it is not answered "Invalid credentials") and a     *)
(* login with the previous password, when it differs from P, is answered   *)
(* "Invalid credentials"; for every account, an account that matches a     *)
(* forceSync seed entry included.                                          *)
(***************************************************************************)
C23_LoginAfterReset ==
    \A e \in FlowBodies.emails, code \in FlowBodies.codes, P \in FlowBodies.passwords :
        \A c \in Handled(resetRequest(e, code, <<>>, P)) :
            c.resp.status = 200 =>
                /\ \A c2 \in HandledAfter(c, loginRequest(e, P)) :
                       c2.resp.message # "Invalid credentials"
                /\ \A old \in FlowBodies.passwords :
                       (old # P /\ bcryptCompare(old, admins[c.resp.account].passwordHash)) =>
                           \A c2 \in HandledAfter(c, loginRequest(e, old)) :
                               /\ c2.resp.status = 401
                               /\ c2.resp.message = "Invalid credentials"

(***************************************************************************)
(* C24. At most one login code is valid per account at any time: when a    *)
(* new login code is issued for an account (by login, resend-verification  *)
(* or signup) it overwrites the stored hash and expiry, so that every code *)
(* other than the one just issued, a previously issued one whose 10-minute *)
(* window has not elapsed included, is rejected by verify-login from then  *)
(* on; and in every state no two different codes are accepted for one      *)
(* email.                                                                  *)
(***************************************************************************)
IssuingRequests ==
    LET U == CodeBodies
    IN       { signupRequest(n, e, p) : n \in U.names, e \in U.emails, p \in U.passwords }
        \cup { resendRequest(e) : e \in U.emails }
        \cup { loginRequest(e, p) : e \in U.emails, p \in U.passwords }

\* the code the request generated (line 306, 386 or 422)
issuedCode(c) == generateVerificationCode(c.r.rand)

OtherCodesRejected(c) ==
    \A X \in RawCodes :
        trim(X) # issuedCode(c) =>
            \A c2 \in HandledAfter(c, verifyRequest(c.r.email, X)) :
                /\ c2.resp.status = 400
                /\ c2.resp.token = NoToken
                /\ c2.db = c.db

C24_OneValidCode ==
    /\ \A r \in IssuingRequests : \A c \in Handled(r) :
           c.resp.mail # "none" => OtherCodesRejected(c)
    /\ \A e \in CodeBodies.emails : \A X, Y \in RawCodes :
           (VerifyAccepts(e, X) /\ VerifyAccepts(e, Y)) => trim(X) = trim(Y)

\* an account holds an unexpired code from an earlier request, and a resend
\* issued now stores a different one, after which the earlier code is rejected
\* although its window has not elapsed
C24_Witness ==
    \E id \in DOMAIN admins, X \in GeneratedCodes :
        /\ now > 0
        /\ VerifyAccepts(admins[id].email, X)
        /\ admins[id].loginVerificationExpiresAt < now + 10 * 60 * 1000
        /\ \E c \in Handled(resendRequest(admins[id].email)) :
               /\ c.resp.mail = "sent"
               /\ issuedCode(c) # X
               /\ c.db[id].loginVerificationCodeHash = sha256(issuedCode(c))
               /\ admins[id].loginVerificationExpiresAt > now
               /\ \A c2 \in HandledAfter(c, verifyRequest(admins[id].email, X)) :
                      c2.resp.status = 400

(***************************************************************************)
(* C25. Each secret's hash and expiry are set and cleared together: in     *)
(* every reachable state, for every account, the login-code hash is empty  *)
(* exactly when the login-code expiry is null, and the reset-token hash is *)
(* empty exactly when the reset-token expiry is null.                      *)
(***************************************************************************)
PairedFields(d) ==
    /\ (d.loginVerificationCodeHash = <<>>) = (d.loginVerificationExpiresAt = Null)
    /\ (d.resetPasswordTokenHash = <<>>) = (d.resetPasswordExpiresAt = Null)

C25_HashAndExpiryPaired == \A id \in DOMAIN admins : PairedFields(admins[id])
====
